---- MODULE Spec2Model ----
(***************************************************************************)
(* SendIt: a PeerTransfer session (src/src/utils/rtc.ts).                  *)
(*                                                                         *)
(* The specifications share the variables below:                           *)
(*   Spec         - one sending session and its RTCDataChannel;            *)
(*   LinkSpec     - one transfer, with the receiving session at the other  *)
(*                  end of the channel (ReportSpec: the 40000-byte file;   *)
(*                  LiveSpec: with fairness, channel open, reads succeed); *)
(*   RecvSpec     - the receiving half alone, driven by arbitrary frames   *)
(*                  (TeardownSpec: with the channel failing or closing);   *)
(*   SignalSpec   - the signaling handshake of one session against the     *)
(*                  relay's broadcast traffic (RetrySpec: the WebSocket    *)
(*                  still connecting);                                     *)
(*   RelaySpec    - the relay server (src/server/server.js).               *)
(*                                                                         *)
(* Bytes are symbolic: byte i of File f is the pair (f, i), so an          *)
(* ArrayBuffer read from file.slice(start, end) is the run                 *)
(* [src |-> f, start |-> start, end |-> end], and two byte strings are     *)
(* equal for every file content iff their runs, joined, are equal.         *)
(***************************************************************************)
EXTENDS Integers, Sequences, FiniteSets, TLC

VARIABLES
    \* ---- the sending session and its data channel
    file,                \* the File the user selected (FileTransferPanel's file)
    dataChannel,         \* this.dataChannel: NoChannel or [id, readyState]
    bufferedAmount,      \* dataChannel.bufferedAmount, in bytes
    onbufferedamountlow, \* dataChannel.onbufferedamountlow: 0 (unset) or the
                         \* index in transfers of the sendFile call whose
                         \* sendNextChunk it runs
    lowPending,          \* a bufferedamountlow event is queued, not yet run
    transfers,           \* one closure record per accepted sendFile call
    timers,              \* setTimeout(trySend, 50) callbacks, in firing order
    now,                 \* Date.now()
    wire,                \* frames handed to dataChannel.send, in order
    senderProgress,      \* the sender's onProgress calls
    readFailed,          \* history: a FileReader reported an error
    highSeen,            \* history: a check saw bufferedAmount above the high
                         \* mark and the channel has not since drained to the
                         \* low threshold
    \* ---- the receiving session
    delivered,           \* number of frames of wire given to onmessage
    incomingChunks,      \* this.incomingChunks
    expectedChunks,      \* this.expectedChunks
    receivingFile,       \* this.receivingFile: <<>> (undefined) or <<meta>>
    events,              \* the receiver's onFileInfo/onProgress/onComplete calls
    \* ---- the signaling side of a session
    ws,                  \* this.ws.readyState
    remoteId,            \* this.remoteId: Null or a peer id
    peerConnection,      \* this.peerConnection: 0 (undefined) or an index in pcs
    pcs,                 \* every RTCPeerConnection the session has created
    tasks,               \* suspended continuations: createOffer().then and the
                         \* awaits of handleSignal's offer case
    sigTimers,           \* setTimeout(sendSignal, 100) callbacks, in firing order
    sent,                \* envelopes handed to ws.send, in order
    dropped,             \* envelopes sendSignal gave up on (its console.warn), in order
    callbacks,           \* the session's onConnect/onDisconnect calls
    \* ---- the relay (src/server/server.js)
    clients,             \* the keys of the clients Map: connections registered
    sockets,             \* readyState of every connection's WebSocket object
    inbox,               \* per connection, the texts client.send gave it, in order
    relayed,             \* history: the messages broadcast so far, with sender
    serverUp,            \* the relay process runs
    \* ---- history: the operation the last step performed, the envelope it
    \* handled, and the number of envelopes handled so far
    lastOp,
    lastMsg,
    heard

xferVars == <<file, dataChannel, bufferedAmount, onbufferedamountlow, lowPending,
              transfers, timers, now, wire, senderProgress, readFailed, highSeen>>
recvVars == <<delivered, incomingChunks, expectedChunks, receivingFile, events>>
sigVars == <<ws, remoteId, peerConnection, pcs, tasks, sigTimers, sent, dropped,
            callbacks>>
relayVars == <<clients, sockets, inbox, relayed, serverUp>>
vars == <<xferVars, recvVars, sigVars, relayVars, lastOp, lastMsg, heard>>

-----------------------------------------------------------------------------
(* Program constants *)

CHUNK_SIZE == 16384
HIGH_WATER == 16777216
LOW_THRESHOLD == 1048576
DATE_NOW_DIGITS == 13

(* Bounds *)

MaxChunks == 2      \* files have at most this many chunks
MaxSends == 2       \* accepted sendFile calls per run

-----------------------------------------------------------------------------
(* Values *)

NoChannel == [id |-> 0, readyState |-> "undefined"]

Null == "null"

\* No envelope: the last step handled none
NoMsg == [type |-> "none", from |-> Null, to |-> Null, body |-> <<>>]

Channel(id, readyState) == [id |-> id, readyState |-> readyState]

\* JavaScript numbers that onProgress can be handed.
Finite(n) == [num |-> "finite", v |-> n]
Infinity == [num |-> "Infinity", v |-> 0]
NaN == [num |-> "NaN", v |-> 0]

\* Mutant: the percentage is rounded up
ProgressPercent_Ceil(k, n) ==
    IF n = 0 THEN (IF k = 0 THEN NaN ELSE Infinity)
    ELSE Finite((k * 100 + n - 1) \div n)

\* Math.floor((k / n) * 100). For n <= 4 and k <= 2n the double result is
\* the integer quotient; k / 0 is Infinity for k > 0 and NaN for k = 0.
ProgressPercent(k, n) ==
    IF n = 0 THEN (IF k = 0 THEN NaN ELSE Infinity)
    ELSE Finite((k * 100) \div n)

\* Math.ceil(size / CHUNK_SIZE)
TotalChunks(size) == (size + CHUNK_SIZE - 1) \div CHUNK_SIZE

Min(a, b) == IF a < b THEN a ELSE b

FileSizes ==
    {0} \cup {k * CHUNK_SIZE : k \in 1..MaxChunks}
        \cup {(k - 1) * CHUNK_SIZE + 7232 : k \in 1..MaxChunks}

Files ==
    {[name |-> "report.bin", type |-> "application/octet-stream", size |-> s] :
        s \in FileSizes}

\* file.slice(start, end) read by FileReader.readAsArrayBuffer
Slice(f, start, end) == [src |-> f, start |-> start, end |-> end]

Digits(n) == IF n < 10 THEN 1 ELSE IF n < 100 THEN 2 ELSE IF n < 1000 THEN 3
             ELSE IF n < 10000 THEN 4 ELSE IF n < 100000 THEN 5
             ELSE IF n < 1000000 THEN 6 ELSE IF n < 10000000 THEN 7 ELSE 8

\* JSON.stringify({ messageType: 'file-info', meta })
FileInfoFrame(meta) ==
    [kind |-> "string", data |-> [messageType |-> "file-info", meta |-> meta]]

\* JSON.stringify({ messageType: 'file-complete', fileId })
FileCompleteFrame(fileId) ==
    [kind |-> "string", data |-> [messageType |-> "file-complete", fileId |-> fileId]]

BinaryFrame(buf) == [kind |-> "binary", data |-> buf]

\* Bytes a frame adds to bufferedAmount: the UTF-8 length of the JSON text
\* (ASCII names only), or the ArrayBuffer's byteLength.
ByteLength(frame) ==
    IF frame.kind = "binary" THEN frame.data.end - frame.data.start
    ELSE IF frame.data.messageType = "file-info"
         THEN 91 + DATE_NOW_DIGITS + Len(frame.data.meta.name)
                 + Digits(frame.data.meta.size) + Len(frame.data.meta.type)
                 + Digits(frame.data.meta.totalChunks)
         ELSE 43 + DATE_NOW_DIGITS

-----------------------------------------------------------------------------
(* The receiving half: dataChannel.onmessage and its handlers *)

ReceiverState(chunks, expected, receiving, evs) ==
    [incomingChunks |-> chunks, expectedChunks |-> expected,
     receivingFile |-> receiving, events |-> evs]

\* Mutant: this.incomingChunks is not emptied
handleFileInfo_KeepsChunks(r, meta) ==
    ReceiverState(r.incomingChunks, meta.totalChunks, <<meta>>,
                  Append(r.events, [ev |-> "onFileInfo", meta |-> meta]))

\* Mutant: a metadata frame is refused while a transfer is tracked
handleFileInfo_RejectsSecond(r, meta) ==
    IF r.receivingFile # <<>> THEN r
    ELSE ReceiverState(<<>>, meta.totalChunks, <<meta>>,
                       Append(r.events, [ev |-> "onFileInfo", meta |-> meta]))

handleFileInfo(r, meta) ==
    ReceiverState(<<>>, meta.totalChunks, <<meta>>,
                  Append(r.events, [ev |-> "onFileInfo", meta |-> meta]))

handleFileChunkBinary(r, data) ==
    LET chunks == Append(r.incomingChunks, data)
    IN  ReceiverState(chunks, r.expectedChunks, r.receivingFile,
                      Append(r.events,
                             [ev |-> "onProgress",
                              value |-> ProgressPercent(Len(chunks), r.expectedChunks)]))

\* new Blob(parts, { type })
Blob(parts, type) == [parts |-> parts, type |-> type]

\* Mutant: the guard on this.receivingFile is missing
handleComplete_NoGuard(r) ==
    ReceiverState(<<>>, 0, <<>>,
                  Append(r.events,
                         [ev |-> "onComplete", blob |-> Blob(r.incomingChunks, ""),
                          meta |-> r.receivingFile]))

\* Mutant: the chunk buffer and the expected count are not cleared
handleComplete_KeepsChunks(r) ==
    IF r.receivingFile = <<>> THEN r
    ELSE ReceiverState(r.incomingChunks, r.expectedChunks, <<>>,
                       Append(r.events,
                              [ev |-> "onComplete",
                               blob |-> Blob(r.incomingChunks, r.receivingFile[1].type),
                               meta |-> r.receivingFile[1]]))

handleComplete(r) ==
    IF r.receivingFile = <<>> THEN r
    ELSE ReceiverState(<<>>, 0, <<>>,
                       Append(r.events,
                              [ev |-> "onComplete",
                               blob |-> Blob(r.incomingChunks, r.receivingFile[1].type),
                               meta |-> r.receivingFile[1]]))

onmessage(r, frame) ==
    IF frame.kind = "string"
    THEN IF frame.data.messageType = "file-info"
         THEN handleFileInfo(r, frame.data.meta)
         ELSE IF frame.data.messageType = "file-complete"
              THEN handleComplete(r)
              ELSE r
    ELSE handleFileChunkBinary(r, frame.data)

Receiver == ReceiverState(incomingChunks, expectedChunks, receivingFile, events)

SetReceiver(r) ==
    /\ incomingChunks' = r.incomingChunks
    /\ expectedChunks' = r.expectedChunks
    /\ receivingFile' = r.receivingFile
    /\ events' = r.events

-----------------------------------------------------------------------------
(* The sending half: sendFile and the callbacks it registers *)

\* dataChannel.send throws "send queue is full" in browsers that cap the send
\* queue at the high mark (the case trySend catches); others queue the frame.
QueueFull(len) == bufferedAmount + len > HIGH_WATER

\* sendNextChunk reaches its bufferedAmount check
ReachesCheck(tr) == ~(tr.chunkIndex >= tr.totalChunks \/ tr.isReading)

\* sendNextChunk() of closure tr with the channel's bufferedAmount at ba
sendNextChunk(tr, ba) ==
    IF ~ReachesCheck(tr) THEN tr
    ELSE IF ba > HIGH_WATER THEN tr
    ELSE LET start == tr.chunkIndex * CHUNK_SIZE
             end == Min(start + CHUNK_SIZE, tr.file.size)
         IN  [tr EXCEPT !.isReading = TRUE,
                        !.reader = <<Slice(tr.file, start, end)>>]

Sent(t, frame) == [t |-> t, frame |-> frame]

\* trySend() of closure t holding chunkData, with trs and tms the closures
\* and the timers as its caller leaves them. onProgress runs after the chunk
\* is handed to the channel and before the completion frame is: the report
\* records (at) how many frames the channel had been handed when it ran.
trySend(t, chunkData, trs, tms) ==
    LET again == Append(tms, [t |-> t, chunkData |-> chunkData])
        frame == BinaryFrame(chunkData)
    IN
    IF bufferedAmount > HIGH_WATER
    THEN /\ timers' = again
         /\ transfers' = trs
         /\ highSeen' = TRUE
         /\ UNCHANGED <<wire, bufferedAmount, senderProgress>>
    ELSE \/ /\ dataChannel.readyState = "open"
            /\ QueueFull(ByteLength(frame))
            /\ timers' = again
            /\ transfers' = trs
            /\ UNCHANGED <<wire, bufferedAmount, senderProgress, highSeen>>
         \/ /\ dataChannel.readyState # "open"
            /\ timers' = tms
            /\ transfers' = trs
            /\ UNCHANGED <<wire, bufferedAmount, senderProgress, highSeen>>
         \/ /\ dataChannel.readyState = "open"
            /\ timers' = tms
            /\ LET tr == [trs[t] EXCEPT !.chunkIndex = @ + 1]
                   ba == bufferedAmount + ByteLength(frame)
                   done == FileCompleteFrame(tr.fileId)
               IN  /\ senderProgress' =
                          Append(senderProgress,
                                 [t |-> t,
                                  value |-> ProgressPercent(tr.chunkIndex, tr.totalChunks),
                                  at |-> Len(wire) + 1])
                   /\ IF tr.chunkIndex < tr.totalChunks
                      THEN /\ transfers' = [trs EXCEPT ![t] = sendNextChunk(tr, ba)]
                           /\ wire' = Append(wire, Sent(t, frame))
                           /\ bufferedAmount' = ba
                           /\ highSeen' = (highSeen \/ (ReachesCheck(tr) /\ ba > HIGH_WATER))
                      ELSE /\ transfers' = [trs EXCEPT ![t] = tr]
                           /\ highSeen' = highSeen
                           /\ \/ /\ wire' = Append(Append(wire, Sent(t, frame)), Sent(t, done))
                                 /\ bufferedAmount' = ba + ByteLength(done)
                              \/ /\ ba + ByteLength(done) > HIGH_WATER
                                 /\ wire' = Append(wire, Sent(t, frame))
                                 /\ bufferedAmount' = ba

\* Mutant: the guard tests only that a data channel exists
NotReady_NoStateCheck == dataChannel = NoChannel

\* sendFile's guard: !this.dataChannel || this.dataChannel.readyState !== 'open'
NotReady == dataChannel = NoChannel \/ dataChannel.readyState # "open"

\* PeerTransfer.sendFile(file); successive calls read distinct clock values
sendFile ==
    /\ lastOp' = "sendFile"
    /\ UNCHANGED recvVars
    /\ IF NotReady
       THEN UNCHANGED xferVars
       ELSE /\ Len(transfers) < MaxSends
            /\ LET fileId == now
                   totalChunks == TotalChunks(file.size)
                   meta == [fileId |-> fileId, name |-> file.name, size |-> file.size,
                            type |-> file.type, totalChunks |-> totalChunks]
                   info == FileInfoFrame(meta)
                   ba == bufferedAmount + ByteLength(info)
                   t == Len(transfers) + 1
                   tr == [file |-> file, fileId |-> fileId, totalChunks |-> totalChunks,
                          chunkIndex |-> 0, isReading |-> FALSE, reader |-> <<>>]
               IN  \/ /\ now' = now + 1
                      /\ wire' = Append(wire, Sent(t, info))
                      /\ bufferedAmount' = ba
                      /\ transfers' = Append(transfers, sendNextChunk(tr, ba))
                      /\ onbufferedamountlow' = t
                      /\ highSeen' = (highSeen \/ (ReachesCheck(tr) /\ ba > HIGH_WATER))
                      /\ UNCHANGED <<file, dataChannel, lowPending, timers, senderProgress, readFailed>>
                   \/ /\ QueueFull(ByteLength(info))
                      /\ UNCHANGED xferVars

\* reader.onload of closure t's pending FileReader
readerOnload(t) ==
    /\ transfers[t].reader # <<>>
    /\ lastOp' = "reader.onload"
    /\ trySend(t, transfers[t].reader[1],
               [transfers EXCEPT ![t].isReading = FALSE, ![t].reader = <<>>],
               timers)
    /\ UNCHANGED <<file, dataChannel, onbufferedamountlow, lowPending, now, readFailed>>
    /\ UNCHANGED recvVars

\* reader.onerror of closure t's pending FileReader
readerOnerror(t) ==
    /\ transfers[t].reader # <<>>
    /\ lastOp' = "reader.onerror"
    /\ transfers' = [transfers EXCEPT ![t].isReading = FALSE, ![t].reader = <<>>]
    /\ readFailed' = TRUE
    /\ UNCHANGED <<file, dataChannel, bufferedAmount, onbufferedamountlow, lowPending,
                   timers, now, wire, senderProgress, highSeen>>
    /\ UNCHANGED recvVars

\* the oldest setTimeout(trySend, 50) fires
timerFires ==
    /\ timers # <<>>
    /\ lastOp' = "timer"
    /\ trySend(Head(timers).t, Head(timers).chunkData, transfers, Tail(timers))
    /\ UNCHANGED <<file, dataChannel, onbufferedamountlow, lowPending, now, readFailed>>
    /\ UNCHANGED recvVars

\* dataChannel.onbufferedamountlow runs for a queued bufferedamountlow event
bufferedAmountLow ==
    /\ lowPending
    /\ lastOp' = "bufferedamountlow"
    /\ lowPending' = FALSE
    /\ IF onbufferedamountlow = 0
       THEN UNCHANGED <<transfers, highSeen>>
       ELSE LET tr == transfers[onbufferedamountlow]
            IN  /\ transfers' = [transfers EXCEPT ![onbufferedamountlow] =
                                     sendNextChunk(tr, bufferedAmount)]
                /\ highSeen' = (highSeen \/ (ReachesCheck(tr) /\ bufferedAmount > HIGH_WATER))
    /\ UNCHANGED <<file, dataChannel, bufferedAmount, onbufferedamountlow, timers, now,
                   wire, senderProgress, readFailed>>
    /\ UNCHANGED recvVars

-----------------------------------------------------------------------------
(* The channel: the browser's side of RTCDataChannel *)

\* Levels to which the browser is observed to drain the send buffer
DrainTargets == {0, LOW_THRESHOLD, HIGH_WATER - CHUNK_SIZE}

\* Bytes of an earlier, fully queued transfer still buffered when the run starts
InitialBacklog == {0, HIGH_WATER - CHUNK_SIZE, HIGH_WATER}

\* The browser transmits buffered bytes; crossing from above the threshold
\* to it or below queues a bufferedamountlow event.
drain(level) ==
    /\ level < bufferedAmount
    /\ lastOp' = "drain"
    /\ bufferedAmount' = level
    /\ lowPending' = (lowPending \/ (bufferedAmount > LOW_THRESHOLD /\ level <= LOW_THRESHOLD))
    /\ highSeen' = (highSeen /\ level > LOW_THRESHOLD)
    /\ UNCHANGED <<file, dataChannel, onbufferedamountlow, transfers, timers, now, wire,
                   senderProgress, readFailed>>
    /\ UNCHANGED recvVars

channelOpens ==
    /\ dataChannel.readyState = "connecting"
    /\ lastOp' = "open"
    /\ dataChannel' = Channel(dataChannel.id, "open")
    /\ UNCHANGED <<file, bufferedAmount, onbufferedamountlow, lowPending, transfers, timers,
                   now, wire, senderProgress, readFailed, highSeen>>
    /\ UNCHANGED recvVars

channelCloses ==
    /\ dataChannel.readyState = "open"
    /\ lastOp' = "close"
    /\ dataChannel' = Channel(dataChannel.id, "closed")
    /\ UNCHANGED <<file, bufferedAmount, onbufferedamountlow, lowPending, transfers, timers,
                   now, wire, senderProgress, readFailed, highSeen>>
    /\ UNCHANGED recvVars

\* What a frame is to onmessage: "binary", or the messageType of its JSON text
FrameType(frame) == IF frame.kind = "binary" THEN "binary" ELSE frame.data.messageType

\* The channel delivers the next frame, in the order sent, to the receiver
deliver ==
    /\ delivered < Len(wire)
    /\ lastOp' = FrameType(wire[delivered + 1].frame)
    /\ delivered' = delivered + 1
    /\ SetReceiver(onmessage(Receiver, wire[delivered + 1].frame))
    /\ UNCHANGED xferVars

-----------------------------------------------------------------------------
(* Spec: sender, channel, receiver *)

\* The relay is not part of the session specifications: its state rests.
RelayRests ==
    /\ clients = {}
    /\ sockets = <<>>
    /\ inbox = <<>>
    /\ relayed = <<>>
    /\ serverUp = TRUE

ReceiverInit ==
    /\ delivered = 0
    /\ incomingChunks = <<>>
    /\ expectedChunks = 0
    /\ receivingFile = <<>>
    /\ events = <<>>

SenderInit ==
    /\ file \in Files
    /\ dataChannel \in {NoChannel, Channel(1, "connecting"), Channel(1, "open")}
    /\ bufferedAmount \in
           (IF dataChannel.readyState = "open" THEN InitialBacklog ELSE {0})
    /\ onbufferedamountlow = 0
    /\ lowPending = FALSE
    /\ transfers = <<>>
    /\ timers = <<>>
    /\ now = 1
    /\ wire = <<>>
    /\ senderProgress = <<>>
    /\ readFailed = FALSE
    /\ highSeen = FALSE

\* The handshake is not part of the transfer specifications: its state rests.
SignalRests ==
    /\ ws = "OPEN"
    /\ remoteId = Null
    /\ peerConnection = 0
    /\ pcs = <<>>
    /\ tasks = {}
    /\ sigTimers = <<>>
    /\ sent = <<>>
    /\ dropped = <<>>
    /\ callbacks = <<>>
    /\ lastMsg = NoMsg
    /\ heard = 0

Init ==
    /\ SenderInit
    /\ ReceiverInit
    /\ RelayRests
    /\ SignalRests
    /\ lastOp = "new"

\* A step of the transfer leaves the signaling side alone
SignalingIdle == UNCHANGED <<sigVars, relayVars, lastMsg, heard>>

Next ==
    \/ SignalingIdle /\ sendFile
    \/ SignalingIdle /\ \E t \in 1..Len(transfers) : readerOnload(t)
    \/ SignalingIdle /\ \E t \in 1..Len(transfers) : readerOnerror(t)
    \/ SignalingIdle /\ timerFires
    \/ SignalingIdle /\ bufferedAmountLow
    \/ SignalingIdle /\ \E level \in DrainTargets : drain(level)
    \/ SignalingIdle /\ channelOpens
    \/ SignalingIdle /\ channelCloses

Spec == Init /\ [][Next]_vars

-----------------------------------------------------------------------------
(* LinkSpec: one sendFile call, the channel, and the receiver at its far end *)

LinkNext ==
    \/ SignalingIdle /\ (NotReady \/ transfers = <<>>) /\ sendFile
    \/ SignalingIdle /\ \E t \in 1..Len(transfers) : readerOnload(t)
    \/ SignalingIdle /\ \E t \in 1..Len(transfers) : readerOnerror(t)
    \/ SignalingIdle /\ timerFires
    \/ SignalingIdle /\ bufferedAmountLow
    \/ SignalingIdle /\ \E level \in DrainTargets : drain(level)
    \/ SignalingIdle /\ channelOpens
    \/ SignalingIdle /\ channelCloses
    \/ SignalingIdle /\ deliver

LinkSpec == Init /\ [][LinkNext]_vars

-----------------------------------------------------------------------------
(* ReportSpec: LinkSpec for the 40000-byte file of the spec's example *)

ReportFile == [name |-> "report.bin", type |-> "application/octet-stream", size |-> 40000]

ReportInit ==
    /\ file = ReportFile
    /\ dataChannel \in {NoChannel, Channel(1, "connecting"), Channel(1, "open")}
    /\ bufferedAmount \in
           (IF dataChannel.readyState = "open" THEN InitialBacklog ELSE {0})
    /\ onbufferedamountlow = 0
    /\ lowPending = FALSE
    /\ transfers = <<>>
    /\ timers = <<>>
    /\ now = 1
    /\ wire = <<>>
    /\ senderProgress = <<>>
    /\ readFailed = FALSE
    /\ highSeen = FALSE
    /\ ReceiverInit
    /\ RelayRests
    /\ SignalRests
    /\ lastOp = "new"

ReportSpec == ReportInit /\ [][LinkNext]_vars

-----------------------------------------------------------------------------
(* RecvSpec: the receiving half alone. The far end of the channel is any    *)
(* peer: it may send any frame in any order.                                 *)

MaxFrames == 6      \* frames the far end sends per run

RecvFile(size) == [name |-> "report.bin", type |-> "application/octet-stream", size |-> size]

InboundFrames ==
    {FileInfoFrame([fileId |-> id, name |-> "report.bin", size |-> size,
                    type |-> "application/octet-stream",
                    totalChunks |-> TotalChunks(size)]) :
         id \in {1, 2}, size \in {7232, 23616}}
    \cup {BinaryFrame(Slice(RecvFile(23616), 0, CHUNK_SIZE)),
          BinaryFrame(Slice(RecvFile(23616), CHUNK_SIZE, 23616)),
          BinaryFrame(Slice(RecvFile(7232), 0, 7232))}
    \cup {FileCompleteFrame(id) : id \in {1, 2}}

\* dataChannel.onmessage runs on a frame from the far end
receive(frame) ==
    /\ Len(wire) < MaxFrames
    /\ lastOp' = FrameType(frame)
    /\ wire' = Append(wire, Sent(0, frame))
    /\ delivered' = delivered + 1
    /\ SetReceiver(onmessage(Receiver, frame))
    /\ UNCHANGED <<file, dataChannel, bufferedAmount, onbufferedamountlow, lowPending,
                   transfers, timers, now, senderProgress, readFailed, highSeen>>

RecvInit ==
    /\ file = RecvFile(0)
    /\ dataChannel = Channel(1, "open")
    /\ bufferedAmount = 0
    /\ onbufferedamountlow = 0
    /\ lowPending = FALSE
    /\ transfers = <<>>
    /\ timers = <<>>
    /\ now = 1
    /\ wire = <<>>
    /\ senderProgress = <<>>
    /\ readFailed = FALSE
    /\ highSeen = FALSE
    /\ ReceiverInit
    /\ RelayRests
    /\ SignalRests
    /\ lastOp = "new"

RecvNext == SignalingIdle /\ \E frame \in InboundFrames : receive(frame)

RecvSpec == RecvInit /\ [][RecvNext]_vars

-----------------------------------------------------------------------------
(* SignalSpec: the handshake of one session whose WebSocket has opened. The  *)
(* relay broadcasts, so any envelope of any peer may arrive.                 *)

MAX_RETRIES == 20
RETRY_DELAY == 100

MaxPeerConnections == 2   \* RTCPeerConnection objects created per run
MaxCandidates == 1        \* local ICE candidates gathered per run
MaxWaiting == 1           \* envelopes waiting in a retry timer at a time
MaxEnvelopes == 2         \* envelopes the relay delivers per run

\* The constructor's peerId
peerId == "B"

RemotePeers == {"A", "C"}

\* An offer's or an answer's sdp, or a candidate: who made it, with which of
\* its peer connections, and (an answer) in reply to which offer
Body(by, pc, re) == [by |-> by, pc |-> pc, re |-> re]

Envelope(type, from, to, body) == [type |-> type, from |-> from, to |-> to, body |-> body]

\* What the relay may deliver: envelopes of other peers, to this session or not
Envelopes ==
    {Envelope(type, from, to, Body(from, 0, <<>>)) :
        type \in {"offer", "answer"}, from \in RemotePeers, to \in {peerId, "D"}}
    \cup {Envelope("candidate", "A", to, Body("A", 0, <<>>)) : to \in {peerId, "D"}}

\* new RTCPeerConnection(...)
NewPeerConnection(initiator) ==
    [initiator |-> initiator, signalingState |-> "stable", connectionState |-> "new",
     remoteDescription |-> <<>>, localDescription |-> <<>>, candidates |-> {},
     gathered |-> 0, announced |-> FALSE]

\* The session's ChannelState, read off the current peer connection
SessionState ==
    IF peerConnection = 0 THEN "Idle"
    ELSE LET state == pcs[peerConnection].connectionState
         IN  IF state \in {"new", "connecting"} THEN "Negotiating"
             ELSE IF state = "connected" THEN "Open"
             ELSE IF state \in {"disconnected", "failed"} THEN "Failed"
             ELSE "Closed"

\* sendSignal calls made so far: each has been transmitted, has been dropped
\* or waits in a retry timer
Calls == Len(sent) + Len(dropped) + Len(sigTimers)

\* Mutant: the retry has no bound
MayRetry_Unbounded(attempt) == TRUE

\* attempt < MAX_RETRIES
MayRetry(attempt) == attempt < MAX_RETRIES

\* sendSignal(msg, attempt) with the envelope log at log and the retry timers
\* at tms: the log, the timers and the dropped envelopes it leaves. History:
\* a first call numbers the message (call), and the outcome records the
\* attempt it came at and, for a drop, the readyState that caused it.
sendSignal(msg, attempt, rid, log, tms) ==
    LET m == IF attempt = 0 THEN [msg EXCEPT !.call = Calls + 1] ELSE msg
    IN  IF ws = "OPEN"
        THEN [sent |-> Append(log, [m EXCEPT !.from = peerId, !.to = rid,
                                             !.attempt = attempt]),
              timers |-> tms, dropped |-> dropped]
        ELSE IF ws = "CONNECTING" /\ MayRetry(attempt)
             THEN [sent |-> log,
                   timers |-> Append(tms, [msg |-> m, attempt |-> attempt + 1,
                                           delay |-> RETRY_DELAY]),
                   dropped |-> dropped]
             ELSE [sent |-> log, timers |-> tms,
                   dropped |-> Append(dropped, [msg |-> [m EXCEPT !.attempt = attempt],
                                                ws |-> ws])]

\* Room for one more envelope to wait for the WebSocket to open
MayWait == ws = "CONNECTING" => Len(sigTimers) < MaxWaiting

\* A message as the code builds it, before sendSignal adds from and to; asked
\* records the offer envelope whose handler sends it (history)
Signal(type, body, asked) ==
    [type |-> type, from |-> Null, to |-> Null, body |-> body, asked |-> asked,
     call |-> 0, attempt |-> 0]

\* The retry timer of the oldest waiting sendSignal fires
sigTimerFires ==
    /\ sigTimers # <<>>
    /\ lastOp' = "sigTimer"
    /\ lastMsg' = NoMsg
    /\ LET r == sendSignal(Head(sigTimers).msg, Head(sigTimers).attempt, remoteId,
                           sent, Tail(sigTimers))
       IN  /\ sent' = r.sent
           /\ sigTimers' = r.timers
           /\ dropped' = r.dropped
    /\ UNCHANGED <<ws, remoteId, peerConnection, pcs, tasks, callbacks, dataChannel>>

\* handleConnect(): setRemoteId(remote); initPeerConnection(true)
connect(remote) ==
    /\ Len(pcs) < MaxPeerConnections
    /\ lastOp' = "connect"
    /\ lastMsg' = NoMsg
    /\ remoteId' = remote
    /\ pcs' = Append(pcs, NewPeerConnection(TRUE))
    /\ peerConnection' = Len(pcs) + 1
    /\ dataChannel' = Channel(Len(pcs) + 1, "connecting")
    /\ tasks' = tasks \cup {[k |-> "createOffer", pc |-> Len(pcs) + 1]}
    /\ UNCHANGED <<ws, sigTimers, sent, dropped, callbacks>>

\* createOffer().then(...) of peer connection k runs: setLocalDescription on
\* the session's current peer connection, which takes the offer only if it is
\* the one that made it, then sendSignal
offerCreated(k) ==
    /\ [k |-> "createOffer", pc |-> k] \in tasks
    /\ MayWait
    /\ lastOp' = "createOffer"
    /\ lastMsg' = NoMsg
    /\ tasks' = tasks \ {[k |-> "createOffer", pc |-> k]}
    /\ LET offer == Body(peerId, k, <<>>)
           r == sendSignal(Signal("offer", offer, NoMsg), 0, remoteId, sent, sigTimers)
       IN  /\ pcs' = IF peerConnection = k /\ pcs[k].signalingState = "stable"
                     THEN [pcs EXCEPT ![k].localDescription = <<offer>>,
                                      ![k].signalingState = "have-local-offer"]
                     ELSE pcs
           /\ sent' = r.sent
           /\ sigTimers' = r.timers
           /\ dropped' = r.dropped
    /\ UNCHANGED <<ws, remoteId, peerConnection, callbacks, dataChannel>>

\* Mutant: the test on msg.to is missing
Addressed_AnyRecipient(msg) == TRUE

\* msg.to !== this.peerId is the test handleSignal returns on
Addressed(msg) == msg.to = peerId

\* Mutant: the offer case calls initPeerConnection(true)
OfferInitiator_AsCaller == TRUE

\* The role handleSignal's offer case gives initPeerConnection
OfferInitiator == FALSE

\* handleSignal's offer case up to its first await: adopt the sender, create
\* the peer connection, apply the offer
handleOffer(msg) ==
    /\ Len(pcs) < MaxPeerConnections
    /\ remoteId' = msg.from
    /\ pcs' = Append(pcs, [NewPeerConnection(OfferInitiator) EXCEPT
                              !.remoteDescription = <<msg.body>>,
                              !.signalingState = "have-remote-offer"])
    /\ peerConnection' = Len(pcs) + 1
    /\ tasks' = tasks \cup {[k |-> "offer", step |-> 1, msg |-> msg,
                             pc |-> Len(pcs) + 1, answer |-> <<>>]}
    /\ UNCHANGED <<sent, dropped, sigTimers, dataChannel>>

\* handleSignal's answer case: setRemoteDescription on the current peer
\* connection, which rejects unless it has a local offer outstanding
handleAnswer(msg) ==
    /\ pcs' = IF peerConnection # 0 /\ pcs[peerConnection].signalingState = "have-local-offer"
              THEN [pcs EXCEPT ![peerConnection].remoteDescription = <<msg.body>>,
                               ![peerConnection].signalingState = "stable"]
              ELSE pcs
    /\ UNCHANGED <<remoteId, peerConnection, tasks, sent, dropped, sigTimers, dataChannel>>

\* Mutant: the candidate case creates the peer connection it lacks
handleCandidate_InitsConnection(msg) ==
    /\ IF peerConnection = 0
       THEN /\ pcs' = Append(pcs, NewPeerConnection(FALSE))
            /\ peerConnection' = Len(pcs) + 1
            /\ remoteId' = msg.from
       ELSE /\ pcs' = IF pcs[peerConnection].remoteDescription # <<>>
                      THEN [pcs EXCEPT ![peerConnection].candidates = @ \cup {msg.body}]
                      ELSE pcs
            /\ UNCHANGED <<remoteId, peerConnection>>
    /\ UNCHANGED <<tasks, sent, dropped, sigTimers, dataChannel>>

\* handleSignal's candidate case: addIceCandidate on the current peer
\* connection, which rejects while it has no remote description
handleCandidate(msg) ==
    /\ pcs' = IF peerConnection # 0 /\ pcs[peerConnection].remoteDescription # <<>>
              THEN [pcs EXCEPT ![peerConnection].candidates = @ \cup {msg.body}]
              ELSE pcs
    /\ UNCHANGED <<remoteId, peerConnection, tasks, sent, dropped, sigTimers, dataChannel>>

\* ws.onmessage = handleSignal, run on an envelope from the relay
handleSignal(msg) ==
    /\ ws = "OPEN"
    /\ heard < MaxEnvelopes
    /\ heard' = heard + 1
    /\ lastOp' = "handleSignal"
    /\ lastMsg' = msg
    /\ UNCHANGED <<ws, callbacks>>
    /\ IF ~Addressed(msg)
       THEN UNCHANGED <<remoteId, peerConnection, pcs, tasks, sent, dropped, sigTimers, dataChannel>>
       ELSE \/ msg.type = "offer" /\ handleOffer(msg)
            \/ msg.type = "answer" /\ handleAnswer(msg)
            \/ msg.type = "candidate" /\ handleCandidate(msg)

\* The offer case resumes after one of its awaits. Each call goes to
\* this.peerConnection as it is then; createAnswer and setLocalDescription
\* reject, ending the handler, unless that connection holds a remote offer.
resumeOffer(task) ==
    /\ task \in tasks
    /\ task.k = "offer"
    /\ lastOp' = "resume"
    /\ lastMsg' = NoMsg
    /\ LET cur == pcs[peerConnection]
       IN  \/ /\ task.step = 1
              /\ tasks' = (tasks \ {task}) \cup
                     (IF cur.signalingState = "have-remote-offer"
                      THEN {[task EXCEPT !.step = 2,
                                         !.answer = <<Body(peerId, peerConnection,
                                                           cur.remoteDescription)>>]}
                      ELSE {})
              /\ UNCHANGED <<pcs, sent, dropped, sigTimers>>
           \/ /\ task.step = 2
              /\ IF cur.signalingState = "have-remote-offer" /\ task.answer[1].pc = peerConnection
                 THEN /\ pcs' = [pcs EXCEPT ![peerConnection].localDescription = task.answer,
                                            ![peerConnection].signalingState = "stable"]
                      /\ tasks' = (tasks \ {task}) \cup {[task EXCEPT !.step = 3]}
                 ELSE /\ pcs' = pcs
                      /\ tasks' = tasks \ {task}
              /\ UNCHANGED <<sent, dropped, sigTimers>>
           \/ /\ task.step = 3
              /\ tasks' = tasks \ {task}
              /\ LET r == sendSignal(Signal("answer", task.answer[1], task.msg), 0,
                                     remoteId, sent, sigTimers)
                 IN  /\ sent' = r.sent
                     /\ sigTimers' = r.timers
                     /\ dropped' = r.dropped
              /\ UNCHANGED pcs
    /\ UNCHANGED <<ws, remoteId, peerConnection, callbacks, dataChannel>>

RECURSIVE Gathered(_)
\* The local candidates the first n peer connections have gathered
Gathered(n) == IF n = 0 THEN 0 ELSE pcs[n].gathered + Gathered(n - 1)

\* peerConnection.onicecandidate of peer connection k, which gathers
\* candidates once it has a local description
iceCandidate(k) ==
    /\ pcs[k].localDescription # <<>>
    /\ Gathered(Len(pcs)) < MaxCandidates
    /\ MayWait
    /\ lastOp' = "icecandidate"
    /\ lastMsg' = NoMsg
    /\ pcs' = [pcs EXCEPT ![k].gathered = @ + 1]
    /\ LET r == IF remoteId # Null
                THEN sendSignal(Signal("candidate", Body(peerId, k, <<>>), NoMsg), 0,
                                remoteId, sent, sigTimers)
                ELSE [sent |-> sent, timers |-> sigTimers, dropped |-> dropped]
       IN  /\ sent' = r.sent
           /\ sigTimers' = r.timers
           /\ dropped' = r.dropped
    /\ UNCHANGED <<ws, remoteId, peerConnection, tasks, callbacks, dataChannel>>

\* The connectionState changes a browser makes on a peer connection
StateChanges ==
    {<<"new", "connecting">>, <<"connecting", "connected">>, <<"connecting", "failed">>,
     <<"connected", "disconnected">>, <<"disconnected", "failed">>}

\* Peer connection k has both descriptions and, if it answers, its answer
\* has gone to the relay: the far end can connect
Negotiated(k) ==
    /\ pcs[k].localDescription # <<>>
    /\ pcs[k].remoteDescription # <<>>
    /\ pcs[k].initiator
           \/ \E i \in 1..Len(sent) : sent[i].type = "answer" /\ sent[i].body.pc = k

\* Mutant: a disconnected channel is not reported
Notify_FailedOnly(state) ==
    IF state = "connected" THEN Append(callbacks, "onConnect")
    ELSE IF state = "failed" THEN Append(callbacks, "onDisconnect")
    ELSE callbacks

\* The body of onconnectionstatechange, given the state it read: the
\* notifications raised so far and the one it adds
Notify(state) ==
    IF state = "connected" THEN Append(callbacks, "onConnect")
    ELSE IF state \in {"disconnected", "failed"} THEN Append(callbacks, "onDisconnect")
    ELSE callbacks

\* peerConnection.onconnectionstatechange of peer connection k: the handler
\* reads the state of this.peerConnection
connectionStateChange(k, to) ==
    /\ <<pcs[k].connectionState, to>> \in StateChanges
    /\ to = "connecting" =>
           (pcs[k].localDescription # <<>> /\ pcs[k].remoteDescription # <<>>)
    /\ to = "connected" => Negotiated(k)
    /\ lastOp' = "connectionstatechange"
    /\ lastMsg' = NoMsg
    /\ pcs' = [pcs EXCEPT ![k].connectionState = to]
    /\ callbacks' = Notify(pcs'[peerConnection].connectionState)
    /\ UNCHANGED <<ws, remoteId, peerConnection, tasks, sigTimers, sent, dropped, dataChannel>>

\* peerConnection.ondatachannel of answering peer connection k, once connected
ondatachannel(k) ==
    /\ ~pcs[k].initiator
    /\ pcs[k].connectionState = "connected"
    /\ ~pcs[k].announced
    /\ lastOp' = "datachannel"
    /\ lastMsg' = NoMsg
    /\ pcs' = [pcs EXCEPT ![k].announced = TRUE]
    /\ dataChannel' = Channel(k, "connecting")
    /\ UNCHANGED <<ws, remoteId, peerConnection, tasks, sigTimers, sent, dropped, callbacks>>

\* The data channel opens once its peer connection is connected
dataChannelOpens ==
    /\ dataChannel.readyState = "connecting"
    /\ pcs[dataChannel.id].connectionState = "connected"
    /\ lastOp' = "open"
    /\ lastMsg' = NoMsg
    /\ dataChannel' = Channel(dataChannel.id, "open")
    /\ UNCHANGED sigVars

wsOpens ==
    /\ ws = "CONNECTING"
    /\ lastOp' = "wsOpen"
    /\ lastMsg' = NoMsg
    /\ ws' = "OPEN"
    /\ UNCHANGED <<remoteId, peerConnection, pcs, tasks, sigTimers, sent, dropped, callbacks,
                   dataChannel>>

wsCloses ==
    /\ ws \in {"CONNECTING", "OPEN"}
    /\ lastOp' = "wsClose"
    /\ lastMsg' = NoMsg
    /\ ws' = "CLOSED"
    /\ UNCHANGED <<remoteId, peerConnection, pcs, tasks, sigTimers, sent, dropped, callbacks,
                   dataChannel>>

SignalInit ==
    /\ ws = "OPEN"
    /\ remoteId = Null
    /\ peerConnection = 0
    /\ pcs = <<>>
    /\ tasks = {}
    /\ sigTimers = <<>>
    /\ sent = <<>>
    /\ dropped = <<>>
    /\ callbacks = <<>>
    /\ dataChannel = NoChannel
    /\ file = [name |-> "report.bin", type |-> "application/octet-stream", size |-> 0]
    /\ bufferedAmount = 0
    /\ onbufferedamountlow = 0
    /\ lowPending = FALSE
    /\ transfers = <<>>
    /\ timers = <<>>
    /\ now = 1
    /\ wire = <<>>
    /\ senderProgress = <<>>
    /\ readFailed = FALSE
    /\ highSeen = FALSE
    /\ ReceiverInit
    /\ RelayRests
    /\ lastOp = "new"
    /\ lastMsg = NoMsg
    /\ heard = 0

\* A step of the handshake moves no file: of the transfer's state it touches
\* the data channel only
TransferIdle ==
    UNCHANGED <<file, bufferedAmount, onbufferedamountlow, lowPending, transfers, timers,
                now, wire, senderProgress, readFailed, highSeen, recvVars, relayVars>>

SignalNext ==
    \/ TransferIdle /\ \E msg \in Envelopes : handleSignal(msg)
    \/ TransferIdle /\ UNCHANGED heard /\ \E remote \in RemotePeers : connect(remote)
    \/ TransferIdle /\ UNCHANGED heard /\ \E k \in 1..Len(pcs) : offerCreated(k)
    \/ TransferIdle /\ UNCHANGED heard /\ \E task \in tasks : resumeOffer(task)
    \/ TransferIdle /\ UNCHANGED heard /\ \E k \in 1..Len(pcs) : iceCandidate(k)
    \/ TransferIdle /\ UNCHANGED heard /\
           \E k \in 1..Len(pcs), to \in {"connecting", "connected", "disconnected", "failed"} :
               connectionStateChange(k, to)
    \/ TransferIdle /\ UNCHANGED heard /\ \E k \in 1..Len(pcs) : ondatachannel(k)
    \/ TransferIdle /\ UNCHANGED heard /\ dataChannelOpens
    \/ TransferIdle /\ UNCHANGED heard /\ wsCloses

SignalSpec == SignalInit /\ [][SignalNext]_vars

\* The session constructed while its WebSocket is still connecting
RetryInit ==
    /\ ws = "CONNECTING"
    /\ remoteId = Null
    /\ peerConnection = 0
    /\ pcs = <<>>
    /\ tasks = {}
    /\ sigTimers = <<>>
    /\ sent = <<>>
    /\ dropped = <<>>
    /\ callbacks = <<>>
    /\ dataChannel = NoChannel
    /\ file = [name |-> "report.bin", type |-> "application/octet-stream", size |-> 0]
    /\ bufferedAmount = 0
    /\ onbufferedamountlow = 0
    /\ lowPending = FALSE
    /\ transfers = <<>>
    /\ timers = <<>>
    /\ now = 1
    /\ wire = <<>>
    /\ senderProgress = <<>>
    /\ readFailed = FALSE
    /\ highSeen = FALSE
    /\ ReceiverInit
    /\ RelayRests
    /\ lastOp = "new"
    /\ lastMsg = NoMsg
    /\ heard = 0

\* The handshake of a session whose WebSocket opens late, or never
RetryNext ==
    \/ TransferIdle /\ \E msg \in Envelopes : handleSignal(msg)
    \/ TransferIdle /\ UNCHANGED heard /\ \E remote \in RemotePeers : connect(remote)
    \/ TransferIdle /\ UNCHANGED heard /\ \E k \in 1..Len(pcs) : offerCreated(k)
    \/ TransferIdle /\ UNCHANGED heard /\ \E task \in tasks : resumeOffer(task)
    \/ TransferIdle /\ UNCHANGED heard /\ \E k \in 1..Len(pcs) : iceCandidate(k)
    \/ TransferIdle /\ UNCHANGED heard /\ sigTimerFires
    \/ TransferIdle /\ UNCHANGED heard /\ wsOpens
    \/ TransferIdle /\ UNCHANGED heard /\ wsCloses

RetrySpec == RetryInit /\ [][RetryNext]_vars

-----------------------------------------------------------------------------
(* Properties of the transfer protocol *)

\* The bytes of a Blob built from parts: adjacent runs of one file joined,
\* empty runs dropped.
RECURSIVE Bytes(_)
Bytes(parts) ==
    IF parts = <<>> THEN <<>>
    ELSE LET h == Head(parts)
             rest == Bytes(Tail(parts))
         IN  IF h.start = h.end THEN rest
             ELSE IF rest # <<>> /\ rest[1].src = h.src /\ rest[1].start = h.end
                  THEN <<[h EXCEPT !.end = rest[1].end]>> \o Tail(rest)
                  ELSE <<h>> \o rest

\* The bytes of File f
FileBytes(f) == IF f.size = 0 THEN <<>> ELSE <<[src |-> f, start |-> 0, end |-> f.size]>>

\* ceil(S / 16384), stated without the code's arithmetic
Ceil16384(S) == CHOOSE n \in 0..(S + 1) : n * 16384 >= S /\ (n = 0 \/ (n - 1) * 16384 < S)

IsPrefix(s, w) == Len(s) <= Len(w) /\ \A i \in 1..Len(s) : s[i] = w[i]

\* The frames a sendFile call of closure tr is to hand to the channel
ExpectedFrames(tr) ==
    LET n == Ceil16384(tr.file.size)
        meta == [fileId |-> tr.fileId, name |-> tr.file.name, size |-> tr.file.size,
                 type |-> tr.file.type, totalChunks |-> n]
    IN  <<FileInfoFrame(meta)>>
        \o [i \in 1..n |->
               BinaryFrame([src |-> tr.file, start |-> (i - 1) * 16384,
                            end |-> Min(i * 16384, tr.file.size)])]
        \o <<FileCompleteFrame(tr.fileId)>>

\* The frames closure t handed to the channel, in order
FramesOf(t) ==
    LET own == SelectSeq(wire, LAMBDA w : w.t = t)
    IN  [i \in 1..Len(own) |-> own[i].frame]

NumBinary(w) == Len(SelectSeq(w, LAMBDA x : x.frame.kind = "binary"))

\* Nothing of the transfer is pending anywhere: no read, no timer, no event,
\* the send buffer drained and every frame delivered
Quiescent ==
    /\ transfers # <<>>
    /\ \A t \in 1..Len(transfers) : transfers[t].reader = <<>>
    /\ timers = <<>>
    /\ ~lowPending
    /\ bufferedAmount = 0
    /\ delivered = Len(wire)

\* C1 (as claimed): one sendFile on an open, reliable channel whose file reads
\* succeed ends, once everything pending has run, in an onComplete whose
\* payload is the file byte for byte and whose metadata carries
\* totalChunks = ceil(S / 16384).
C1_RoundTrip ==
    (Quiescent /\ dataChannel.readyState = "open" /\ ~readFailed)
        => /\ Len(SelectSeq(events, LAMBDA e : e.ev = "onComplete")) = 1
           /\ \A i \in 1..Len(events) :
                  events[i].ev = "onComplete"
                      => /\ Bytes(events[i].blob.parts) = FileBytes(file)
                         /\ events[i].meta.totalChunks = Ceil16384(file.size)

\* C2 (as claimed): the frames each accepted sendFile hands to the channel are
\* always a prefix of: file-info, chunk 0 .. chunk totalChunks-1 in index
\* order, file-complete; no chunk is duplicated, skipped or sent after the
\* completion frame, whatever the order of read completions, poll timers and
\* bufferedamountlow events.
C2_FrameOrder ==
    \A t \in 1..Len(transfers) : IsPrefix(FramesOf(t), ExpectedFrames(transfers[t]))

\* C3 (as claimed): once a check of the sender has seen bufferedAmount above
\* 16 MiB, no chunk is handed to the channel until the channel has drained to
\* the 1 MiB low threshold.
C3_Backpressure == [][highSeen => NumBinary(wire') = NumBinary(wire)]_vars

\* C4 (as claimed): frames of two sendFile calls are never interleaved on the
\* channel: once a frame of a later call is on the wire, no frame of an
\* earlier call follows it.
C4_NoInterleaving ==
    \A i, j \in 1..Len(wire) : i < j => wire[i].t <= wire[j].t

\* C5: a sendFile call while the data channel is missing or not open hands no
\* frame to the channel, reports no progress and changes no session state.
C5_NotOpenIsNoOp ==
    [][(lastOp' = "sendFile" /\ (dataChannel = NoChannel \/ dataChannel.readyState # "open"))
          => UNCHANGED <<xferVars, recvVars>>]_vars

\* C5's case: sendFile was called on a channel that closed after an earlier
\* transfer had put frames on it.
C5_Witness ==
    /\ lastOp = "sendFile"
    /\ dataChannel.readyState = "closed"
    /\ wire # <<>>

\* C10: a file-complete frame that arrives while the receiver tracks no
\* transfer fires no onComplete and leaves the receiver state unchanged.
C10_StrayCompleteIgnored ==
    [][(lastOp' = "file-complete" /\ receivingFile = <<>>)
          => UNCHANGED <<incomingChunks, expectedChunks, receivingFile, events>>]_vars

\* C10's cases: a file-complete frame has just been handled that came
\* before any file-info frame, or straight after the file-complete frame
\* that ended a transfer.
C10_Witness ==
    /\ lastOp = "file-complete"
    /\ delivered >= 1
    /\ \/ \A i \in 1..delivered : FrameType(wire[i].frame) # "file-info"
       \/ /\ delivered >= 3
          /\ FrameType(wire[delivered - 1].frame) = "file-complete"
          /\ FrameType(wire[delivered - 2].frame) = "file-info"

\* C6: an envelope whose `to` is not the local identity is discarded: handling
\* it changes no session state (remote identity, peer connection, data
\* channel, pending work) and sends no envelope.
C6_ForeignEnvelopeDiscarded ==
    [][(lastOp' = "handleSignal" /\ lastMsg'.to # peerId)
          => UNCHANGED <<ws, remoteId, peerConnection, pcs, tasks, sigTimers, sent, dropped,
                         callbacks, dataChannel>>]_vars

\* C6's cases: an offer for another peer has just been handled by an Idle
\* session, or an answer for another peer by a session waiting for its answer.
C6_Witness ==
    /\ lastOp = "handleSignal"
    /\ lastMsg.to # peerId
    /\ \/ lastMsg.type = "offer" /\ peerConnection = 0
       \/ /\ lastMsg.type = "answer"
          /\ peerConnection # 0
          /\ pcs[peerConnection].signalingState = "have-local-offer"

\* C7: an offer addressed to the local identity, handled while the session is
\* Idle, creates a peer connection in the non-initiator role, leaves the
\* session Negotiating and makes the offer's sender the remote identity.
C7_OfferStartsNegotiation ==
    [][(/\ lastOp' = "handleSignal"
        /\ lastMsg'.type = "offer"
        /\ lastMsg'.to = peerId
        /\ SessionState = "Idle")
          => /\ SessionState' = "Negotiating"
             /\ Len(pcs') = Len(pcs) + 1
             /\ peerConnection' = Len(pcs')
             /\ ~pcs'[peerConnection'].initiator
             /\ remoteId' = lastMsg'.from]_vars

\* C7's case: the first peer connection of the session was created by the
\* offer of A that has just been handled.
C7_Witness ==
    /\ lastOp = "handleSignal"
    /\ lastMsg.type = "offer"
    /\ lastMsg.to = peerId
    /\ lastMsg.from = "A"
    /\ Len(pcs) = 1
    /\ peerConnection = 1
    /\ remoteId = "A"

\* C8: every answer the session transmits goes from the local identity to the
\* sender of the offer whose handler transmits it, and answers that offer.
C8_AnswerReturnsToOfferer ==
    \A i \in 1..Len(sent) :
        sent[i].type = "answer"
            => /\ sent[i].from = peerId
               /\ sent[i].to = sent[i].asked.from
               /\ sent[i].body.re = <<sent[i].asked.body>>

\* C9: an offer addressed to the local identity, handled while the session is
\* Open, changes neither the remote identity, the peer connection nor the data
\* channel, and starts no answer.
C9_OfferWhileOpenIgnored ==
    [][(/\ lastOp' = "handleSignal"
        /\ lastMsg'.type = "offer"
        /\ lastMsg'.to = peerId
        /\ SessionState = "Open")
          => UNCHANGED <<remoteId, peerConnection, pcs, dataChannel, tasks, sent, dropped>>]_vars

\* The values the sender passed to onProgress for closure t, in order
SenderValues(t) ==
    LET own == SelectSeq(senderProgress, LAMBDA p : p.t = t)
    IN  [i \in 1..Len(own) |-> own[i].value]

\* The events of the inbound transfer whose onFileInfo is events[i]: up to
\* its onComplete or the next onFileInfo
TransferEnd(i) ==
    LET ends == {j \in (i + 1)..Len(events) : events[j].ev \in {"onFileInfo", "onComplete"}}
    IN  IF ends = {} THEN Len(events) + 1
        ELSE CHOOSE j \in ends : \A k \in ends : j <= k

\* The values the receiver passed to onProgress within that transfer
ReceiverValues(i) == [k \in 1..(TransferEnd(i) - i - 1) |-> events[i + k].value]

Completed(i) == TransferEnd(i) <= Len(events) /\ events[TransferEnd(i)].ev = "onComplete"

NonDecreasing(vals) ==
    /\ \A k \in 1..Len(vals) : vals[k].num = "finite"
    /\ \A k \in 1..(Len(vals) - 1) : vals[k].v <= vals[k + 1].v

Hundreds(vals) == Len(SelectSeq(vals, LAMBDA x : x = Finite(100)))

\* The last chunk of closure t's file is among the first n frames handed to
\* the channel
LastChunkSent(t, n) ==
    \E i \in 1..n :
        /\ wire[i].t = t
        /\ wire[i].frame.kind = "binary"
        /\ wire[i].frame.data.end = transfers[t].file.size

\* C11 (as claimed): within one transfer the values passed to onProgress, by
\* the sender and by the receiver, never decrease and hold 100 at most once;
\* the sender reports 100 no earlier than the last chunk; and once the
\* transfer has run to its end 100 has been reported exactly once on each side.
C11_ProgressReaches100Once ==
    /\ \A t \in 1..Len(transfers) :
           /\ NonDecreasing(SenderValues(t))
           /\ Hundreds(SenderValues(t)) <= 1
           /\ (Quiescent /\ dataChannel.readyState = "open" /\ ~readFailed)
                  => Hundreds(SenderValues(t)) = 1
    /\ \A p \in 1..Len(senderProgress) :
           senderProgress[p].value = Finite(100)
               => LastChunkSent(senderProgress[p].t, senderProgress[p].at)
    /\ \A i \in 1..Len(events) :
           events[i].ev = "onFileInfo"
               => /\ NonDecreasing(ReceiverValues(i))
                  /\ Hundreds(ReceiverValues(i)) <= 1
                  /\ Completed(i) => Hundreds(ReceiverValues(i)) = 1

\* The completion frame of closure t is among the first n frames handed to
\* the channel
CompletionQueued(t, n) ==
    \E i \in 1..n : wire[i].t = t /\ FrameType(wire[i].frame) = "file-complete"

\* C12 (as claimed): the sender reports 100 only once the file-complete frame
\* of that transfer has been handed to the channel; every report made before
\* that is below 100.
C12_HundredAfterCompletion ==
    \A p \in 1..Len(senderProgress) :
        LET r == senderProgress[p]
        IN  /\ r.value = Finite(100) => CompletionQueued(r.t, r.at)
            /\ ~CompletionQueued(r.t, r.at) => (r.value.num = "finite" /\ r.value.v < 100)

\* The frames given to the receiver so far
Delivered == [i \in 1..delivered |-> wire[i].frame]

\* The receiver has been given frames of the one transfer only, in the order
\* of the protocol: metadata, chunks by index, completion
DeliveredInOrder ==
    /\ transfers # <<>>
    /\ IsPrefix(Delivered, ExpectedFrames(transfers[1]))

\* The sender announces 3 chunks and hands the channel no chunk but bytes
\* 0..16384, 16384..32768 and 32768..40000 of the file
ThreeChunks ==
    \A i \in 1..Len(wire) :
        LET frame == wire[i].frame
        IN  /\ FrameType(frame) = "file-info" => frame.data.meta.totalChunks = 3
            /\ FrameType(frame) = "binary"
                   => \E k \in 0..2 :
                          /\ frame.data.start = k * 16384
                          /\ ByteLength(frame) = <<16384, 16384, 7232>>[k + 1]

\* The receiver's events are, as far as they go: onFileInfo with the file's
\* name, size and totalChunks 3, onProgress a, b, c, onComplete with the
\* 40000 bytes of the file and the same metadata
ReportEvents(a, b, c) ==
    LET n == Len(events)
    IN  /\ n = delivered
        /\ n >= 1 => /\ events[1].ev = "onFileInfo"
                     /\ events[1].meta.name = "report.bin"
                     /\ events[1].meta.size = 40000
                     /\ events[1].meta.totalChunks = 3
        /\ n >= 2 => events[2] = [ev |-> "onProgress", value |-> Finite(a)]
        /\ n >= 3 => events[3] = [ev |-> "onProgress", value |-> Finite(b)]
        /\ n >= 4 => events[4] = [ev |-> "onProgress", value |-> Finite(c)]
        /\ n >= 5 => /\ events[5].ev = "onComplete"
                     /\ Bytes(events[5].blob.parts) = <<[src |-> ReportFile, start |-> 0, end |-> 40000]>>
                     /\ events[5].meta = events[1].meta

\* C13 (as claimed): a 40000-byte file goes as 3 chunks of 16384, 16384 and
\* 7232 bytes, and the receiver emits onFileInfo with totalChunks 3, then
\* onProgress 34, 67, 100, then onComplete with the 40000-byte payload.
C13_Example == ThreeChunks /\ (DeliveredInOrder => ReportEvents(34, 67, 100))

\* C13 (amended): the same with the onProgress sequence 33, 66, 100.
C13_ExampleFloor == ThreeChunks /\ (DeliveredInOrder => ReportEvents(33, 66, 100))

\* C13's case: the whole transfer has been delivered in order and onComplete
\* has fired.
C13_Witness ==
    /\ DeliveredInOrder
    /\ delivered = 5
    /\ Len(events) = 5
    /\ events[5].ev = "onComplete"

\* The metadata frames among the first n frames given to the receiver
InfoFrames(n) == {j \in 1..n : FrameType(wire[j].frame) = "file-info"}

\* The last of them
LastInfo(n) == CHOOSE j \in InfoFrames(n) : \A k \in InfoFrames(n) : k <= j

\* After n frames an inbound transfer is in progress: a metadata frame has
\* come and no completion frame since
InTransfer(n) ==
    /\ InfoFrames(n) # {}
    /\ \A k \in (LastInfo(n) + 1)..n : FrameType(wire[k].frame) = "binary"

\* The chunks that came after the last metadata frame, in arrival order
ChunksSinceInfo(n) == [k \in 1..(n - LastInfo(n)) |-> wire[LastInfo(n) + k].frame.data]

\* C14: handling a metadata frame fires onFileInfo once, with its metadata;
\* handling a chunk frame of a transfer in progress fires onProgress once;
\* handling the completion frame of a transfer in progress fires onComplete
\* once, with the metadata of the metadata frame and the chunks received
\* since, in arrival order; and none of them fires anything else.
C14_OneEventPerFrame ==
    [][delivered' = delivered + 1 =>
          LET frame == wire'[delivered'].frame
              type == FrameType(frame)
          IN  /\ type = "file-info"
                     => events' = Append(events, [ev |-> "onFileInfo", meta |-> frame.data.meta])
              /\ (type = "binary" /\ InTransfer(delivered))
                     => /\ Len(events') = Len(events) + 1
                        /\ SubSeq(events', 1, Len(events)) = events
                        /\ events'[Len(events')].ev = "onProgress"
              /\ (type = "file-complete" /\ InTransfer(delivered))
                     => LET meta == wire[LastInfo(delivered)].frame.data.meta
                        IN  events' = Append(events,
                                [ev |-> "onComplete",
                                 blob |-> Blob(ChunksSinceInfo(delivered), meta.type),
                                 meta |-> meta])]_vars

\* C14's case: a metadata frame, two chunks and the completion frame have
\* been handled, and onComplete has just fired with the two chunks.
C14_Witness ==
    /\ delivered = 4
    /\ lastOp = "file-complete"
    /\ FrameType(wire[1].frame) = "file-info"
    /\ events[Len(events)].ev = "onComplete"
    /\ Len(events[Len(events)].blob.parts) = 2

\* TeardownSpec: the receiving end of an Open session whose channel may fail
\* or close at any point of an inbound transfer. A disconnected peer
\* connection leaves its data channel open, so frames may still arrive.
MaxTornFrames == 4    \* frames the far end sends per run of TeardownSpec

TeardownInit ==
    /\ file = RecvFile(0)
    /\ dataChannel = Channel(1, "open")
    /\ bufferedAmount = 0
    /\ onbufferedamountlow = 0
    /\ lowPending = FALSE
    /\ transfers = <<>>
    /\ timers = <<>>
    /\ now = 1
    /\ wire = <<>>
    /\ senderProgress = <<>>
    /\ readFailed = FALSE
    /\ highSeen = FALSE
    /\ ReceiverInit
    /\ RelayRests
    /\ ws = "OPEN"
    /\ remoteId = "A"
    /\ peerConnection = 1
    /\ pcs = <<[NewPeerConnection(FALSE) EXCEPT
                   !.signalingState = "stable", !.connectionState = "connected",
                   !.remoteDescription = <<Body("A", 0, <<>>)>>,
                   !.localDescription = <<Body(peerId, 1, <<Body("A", 0, <<>>)>>)>>,
                   !.announced = TRUE]>>
    /\ tasks = {}
    /\ sigTimers = <<>>
    /\ sent = <<>>
    /\ dropped = <<>>
    /\ callbacks = <<"onConnect">>
    /\ lastOp = "new"
    /\ lastMsg = NoMsg
    /\ heard = 0

TeardownNext ==
    \/ SignalingIdle /\ dataChannel.readyState = "open" /\ Len(wire) < MaxTornFrames /\
           \E frame \in InboundFrames : receive(frame)
    \/ TransferIdle /\ UNCHANGED heard /\
           \E to \in {"disconnected", "failed"} : connectionStateChange(1, to)
    \/ SignalingIdle /\ channelCloses

TeardownSpec == TeardownInit /\ [][TeardownNext]_vars

\* The session has been torn down: its peer connection reported failed or
\* disconnected, or its data channel closed
TornDown == SessionState = "Failed" \/ dataChannel.readyState = "closed"

\* The receiver tracks no transfer
ReceiverIdle == receivingFile = <<>> /\ incomingChunks = <<>> /\ expectedChunks = 0

\* C18: once the session is torn down the receiver is idle, and a chunk or a
\* completion frame delivered afterwards fires no event.
C18_TeardownResetsReceiver ==
    [][TornDown' =>
           /\ ReceiverIdle'
           /\ (TornDown /\ lastOp' \in {"binary", "file-complete"}) => events' = events]_vars

-----------------------------------------------------------------------------
(* RelaySpec: the relay server and the connections made to it *)

MaxConnections == 3   \* WebSocket connections accepted per run
MaxMessages == 2      \* messages the relay receives per run

\* A text a client may send: the JSON of an envelope, as JSON.stringify
\* writes it or with insignificant white space, or a text that is not JSON
RelayEnvelopes ==
    {Envelope("offer", "A", to, Body("A", 0, <<>>)) : to \in {"B", "C"}}
    \cup {Envelope("candidate", "B", "A", Body("B", 0, <<>>))}

JSON_stringify(data) == [json |-> <<data>>, spaced |-> FALSE]

JSON_parse(text) == text.json[1]

Texts ==
    {[json |-> <<data>>, spaced |-> sp] : data \in RelayEnvelopes, sp \in BOOLEAN}
    \cup {[json |-> <<>>, spaced |-> FALSE]}

\* wss.on('connection'): a connection is accepted, its socket OPEN
connection ==
    /\ serverUp
    /\ Len(sockets) < MaxConnections
    /\ sockets' = Append(sockets, "OPEN")
    /\ inbox' = Append(inbox, <<>>)
    /\ clients' = clients \cup {Len(sockets) + 1}
    /\ UNCHANGED <<relayed, serverUp>>

\* Mutant: the sender is not excluded
Recipient_AnyOpen(sender, client) == sockets[client] = "OPEN"

\* broadcast's test: client !== sender && client.readyState === WebSocket.OPEN
Recipient(sender, client) == client # sender /\ sockets[client] = "OPEN"

\* broadcast(sender, data): what each connection has been sent afterwards
broadcast(sender, data) ==
    [client \in 1..Len(inbox) |->
        IF client \in clients /\ Recipient(sender, client)
        THEN Append(inbox[client], JSON_stringify(data))
        ELSE inbox[client]]

\* ws.on('message') of connection c; JSON.parse throws on a text that is not
\* JSON, and nothing catches it: the process ends and every socket with it
message(c, text) ==
    /\ serverUp
    /\ c \in clients
    /\ sockets[c] = "OPEN"
    /\ Len(relayed) < MaxMessages
    /\ relayed' = Append(relayed, [sender |-> c, text |-> text])
    /\ IF text.json = <<>>
       THEN /\ serverUp' = FALSE
            /\ sockets' = [k \in 1..Len(sockets) |-> "CLOSED"]
            /\ clients' = {}
            /\ inbox' = inbox
       ELSE /\ inbox' = broadcast(c, JSON_parse(text))
            /\ UNCHANGED <<clients, sockets, serverUp>>

\* The WebSocket of connection c starts or ends its closing handshake: its
\* readyState changes before the close event is emitted
socketCloses(c) ==
    /\ serverUp
    /\ sockets[c] \in {"OPEN", "CLOSING"}
    /\ sockets' = [sockets EXCEPT ![c] = IF @ = "OPEN" THEN "CLOSING" ELSE "CLOSED"]
    /\ UNCHANGED <<clients, inbox, relayed, serverUp>>

\* ws.on('close') of connection c
onclose(c) ==
    /\ serverUp
    /\ sockets[c] = "CLOSED"
    /\ c \in clients
    /\ clients' = clients \ {c}
    /\ UNCHANGED <<sockets, inbox, relayed, serverUp>>

\* A step of the relay moves no session
SessionIdle == UNCHANGED <<xferVars, recvVars, sigVars, lastOp, lastMsg, heard>>

\* The relay starts listening, with no connection; the session variables
\* rest at the values RecvInit gives them
RelayInit == RecvInit

RelayNext ==
    \/ SessionIdle /\ connection
    \/ SessionIdle /\ \E c \in 1..Len(sockets), text \in Texts : message(c, text)
    \/ SessionIdle /\ \E c \in 1..Len(sockets) : socketCloses(c)
    \/ SessionIdle /\ \E c \in 1..Len(sockets) : onclose(c)

RelaySpec == RelayInit /\ [][RelayNext]_vars

\* A sendSignal call is one that has been numbered: the calls so far, and the
\* places each one has come to
Outcomes(c) ==
    Cardinality({i \in 1..Len(sent) : sent[i].call = c})
    + Cardinality({i \in 1..Len(dropped) : dropped[i].msg.call = c})
    + Cardinality({i \in 1..Len(sigTimers) : sigTimers[i].msg.call = c})

\* C15: every sendSignal call has exactly one outcome. It is transmitted, once,
\* when the WebSocket is OPEN at its first attempt or at one of its at most 20
\* retries, each set 100 ms after an attempt that found the WebSocket
\* CONNECTING; it is dropped, and never transmitted, when an attempt finds the
\* WebSocket closing or closed, or still CONNECTING at the 20th retry; no
\* retry goes past the 20th.
C15_SendSignalOneOutcome ==
    [][/\ \A c \in 1..Calls' : Outcomes(c)' = 1
       /\ \A i \in 1..Len(sent') : sent'[i].attempt \in 0..MAX_RETRIES
       /\ \A i \in 1..Len(sigTimers') :
              /\ sigTimers'[i].attempt \in 1..MAX_RETRIES
              /\ sigTimers'[i].delay = 100
       /\ \A i \in 1..Len(dropped') :
              \/ dropped'[i].ws \in {"CLOSING", "CLOSED"}
              \/ dropped'[i].ws = "CONNECTING" /\ dropped'[i].msg.attempt = 20
       /\ lastOp' = "sigTimer" =>
              /\ ws = "OPEN" <=> Len(sent') = Len(sent) + 1
              /\ ws = "CONNECTING" /\ Head(sigTimers).attempt < 20
                     <=> Len(sigTimers') = Len(sigTimers)
              /\ Len(sent') + Len(dropped') + Len(sigTimers')
                     = Len(sent) + Len(dropped) + Len(sigTimers)
       /\ IsPrefix(sent, sent') /\ IsPrefix(dropped, dropped')
      ]_vars

\* C15 witness: one envelope went out at a retry and another was dropped at
\* its 20th retry, the WebSocket still CONNECTING
C15_Witness ==
    /\ \E i \in 1..Len(sent) : sent[i].attempt > 0
    /\ \E i \in 1..Len(dropped) :
           dropped[i].ws = "CONNECTING" /\ dropped[i].msg.attempt = 20
\* The session has raised onDisconnect: its channel reported failed or
\* disconnected
HasFailed == \E i \in 1..Len(callbacks) : callbacks[i] = "onDisconnect"

\* The onConnect notifications raised so far
Connects == Cardinality({i \in 1..Len(callbacks) : callbacks[i] = "onConnect"})

\* C16: Closed/Failed is terminal. Once the session has reported failed or
\* disconnected, no step creates a peer connection, none raises onConnect,
\* and the session is never again Negotiating or Open.
C16_FailedIsTerminal ==
    [][HasFailed =>
           /\ Len(pcs') = Len(pcs)
           /\ Connects' = Connects
           /\ SessionState' \notin {"Negotiating", "Open"}]_vars
\* C17: when the peer connection of a Negotiating or Open session reports
\* failed or disconnected, the session raises onDisconnect and does nothing
\* else: no peer connection is created, no envelope is sent, queued for a
\* retry or dropped, and no handler is left pending.
C17_FailureNotifiesNoRetry ==
    [][(SessionState \in {"Negotiating", "Open"} /\ SessionState' = "Failed") =>
           /\ callbacks' = Append(callbacks, "onDisconnect")
           /\ Len(pcs') = Len(pcs)
           /\ peerConnection' = peerConnection
           /\ UNCHANGED <<sent, sigTimers, dropped, tasks, remoteId>>]_vars

\* C17 witness: an Open session has just been told of its channel's failure
C17_Witness ==
    /\ lastOp = "connectionstatechange"
    /\ SessionState = "Failed"
    /\ Len(callbacks) >= 2
    /\ callbacks[Len(callbacks) - 1] = "onConnect"
    /\ callbacks[Len(callbacks)] = "onDisconnect"
\* C19: a chunk frame that comes while no transfer is in progress is ignored:
\* it fires no event and leaves the chunk buffer, the expected count and the
\* tracked metadata as they were.
C19_StrayChunkIgnored ==
    [][(/\ delivered' = delivered + 1
        /\ FrameType(wire'[delivered'].frame) = "binary"
        /\ ~InTransfer(delivered))
         => /\ events' = events
            /\ UNCHANGED <<incomingChunks, expectedChunks, receivingFile>>]_vars
\* The metadata of the j-th frame, a metadata frame
MetaOf(j) == wire[j].frame.data.meta

\* After n frames the transfer in progress took the place of another: before
\* its metadata frame came one for another transfer id, with no completion
\* frame between the two
Superseded(n) ==
    /\ InTransfer(n)
    /\ \E j \in InfoFrames(n) :
           /\ j < LastInfo(n)
           /\ MetaOf(j).fileId # MetaOf(LastInfo(n)).fileId
           /\ \A k \in (j + 1)..(LastInfo(n) - 1) : FrameType(wire[k].frame) = "binary"

\* C20: a metadata frame for another transfer id that comes while a transfer
\* is in progress resets the receiver: it then tracks the new metadata only,
\* with an empty chunk buffer; and the next onComplete holds the chunks that
\* came after that frame, and no others, with the new metadata.
C20_SecondFileInfoResets ==
    [][delivered' = delivered + 1 =>
          LET frame == wire'[delivered'].frame
              type == FrameType(frame)
          IN  /\ (/\ type = "file-info"
                  /\ InTransfer(delivered)
                  /\ frame.data.meta.fileId # MetaOf(LastInfo(delivered)).fileId)
                   => /\ receivingFile' = <<frame.data.meta>>
                      /\ incomingChunks' = <<>>
                      /\ expectedChunks' = frame.data.meta.totalChunks
              /\ (type = "file-complete" /\ Superseded(delivered))
                   => /\ Len(events') = Len(events) + 1
                      /\ events'[Len(events')].ev = "onComplete"
                      /\ events'[Len(events')].meta = MetaOf(LastInfo(delivered))
                      /\ events'[Len(events')].blob.parts = ChunksSinceInfo(delivered)]_vars

\* C20 witness: metadata of transfer 1, a chunk, metadata of transfer 2, a
\* chunk, the completion frame: onComplete has fired with the last chunk only
\* and the metadata of transfer 2.
C20_Witness ==
    /\ delivered = 5
    /\ lastOp = "file-complete"
    /\ FrameType(wire[1].frame) = "file-info" /\ MetaOf(1).fileId = 1
    /\ FrameType(wire[2].frame) = "binary"
    /\ FrameType(wire[3].frame) = "file-info" /\ MetaOf(3).fileId = 2
    /\ FrameType(wire[4].frame) = "binary"
    /\ events[Len(events)].ev = "onComplete"
    /\ events[Len(events)].meta = MetaOf(3)
    /\ events[Len(events)].blob.parts = <<wire[4].frame.data>>
\* onComplete events fired so far
Completions == {i \in 1..Len(events) : events[i].ev = "onComplete"}

\* C21: the step that fires onComplete leaves the receiver idle (empty chunk
\* buffer, expected count 0, no metadata), and a metadata frame handled by an
\* idle receiver that has completed a transfer starts from that clean state:
\* it tracks the new metadata with an empty buffer, and the next onComplete
\* holds only the chunks that came after that metadata frame.
C21_IdleAfterComplete ==
    [][delivered' = delivered + 1 =>
          LET frame == wire'[delivered'].frame
              type == FrameType(frame)
          IN  /\ Completions' # Completions => ReceiverIdle'
              /\ (type = "file-info" /\ Completions # {} /\ ReceiverIdle)
                   => /\ incomingChunks' = <<>>
                      /\ receivingFile' = <<frame.data.meta>>
                      /\ expectedChunks' = frame.data.meta.totalChunks
              /\ (Completions' # Completions /\ Completions # {})
                   => events'[Len(events')].blob.parts = ChunksSinceInfo(delivered)]_vars

\* C21 witness: a transfer of one chunk has completed, and a second one of
\* one chunk after it: the second payload is its own chunk only
C21_Witness ==
    /\ delivered = 6
    /\ lastOp = "file-complete"
    /\ Cardinality(Completions) = 2
    /\ FrameType(wire[2].frame) = "binary"
    /\ FrameType(wire[3].frame) = "file-complete"
    /\ FrameType(wire[5].frame) = "binary"
    /\ events[Len(events)].blob.parts = <<wire[5].frame.data>>
    /\ ReceiverIdle
\* The last message the relay received
LastRelayed == relayed'[Len(relayed')]

\* C22: the relay forwards every envelope it receives, with the content it
\* came with and whatever its `to`, to every other registered connection whose
\* socket is OPEN, and to no one else: not to the connection that sent it, and
\* not to a connection that is closing or closed, which is sent nothing from
\* then on.
C22_BroadcastWithExclusion ==
    [][/\ (Len(relayed') = Len(relayed) + 1 /\ LastRelayed.text.json # <<>>) =>
            \A c \in 1..Len(inbox) :
                IF c # LastRelayed.sender /\ c \in clients /\ sockets[c] = "OPEN"
                THEN /\ Len(inbox'[c]) = Len(inbox[c]) + 1
                     /\ IsPrefix(inbox[c], inbox'[c])
                     /\ JSON_parse(inbox'[c][Len(inbox'[c])]) = JSON_parse(LastRelayed.text)
                ELSE inbox'[c] = inbox[c]
       /\ \A c \in 1..Len(inbox) : sockets[c] # "OPEN" => inbox'[c] = inbox[c]
       /\ Len(relayed') = Len(relayed) => \A c \in 1..Len(inbox) : inbox'[c] = inbox[c]
      ]_vars

\* C22 witness: of three connections one has closed; an envelope for peer C
\* sent by another has reached the third and neither the closed one nor its
\* sender
C22_Witness ==
    /\ Len(sockets) = 3
    /\ relayed # <<>>
    /\ relayed[Len(relayed)].text.json # <<>>
    /\ \E a, b, c \in 1..3 :
           /\ relayed[Len(relayed)].sender = a
           /\ sockets[c] # "OPEN" /\ c \in clients
           /\ b # a /\ b # c /\ a # c
           /\ inbox[a] = <<>> /\ inbox[c] = <<>>
           /\ Len(inbox[b]) = 1
           /\ JSON_parse(inbox[b][1]).to = "C"
\* An integer from 0 to 100
IsPercent(value) == value.num = "finite" /\ value.v \in 0..100

\* C23: every value given to onProgress, by the sender or by the receiver, is
\* an integer from 0 to 100.
C23_ProgressInRange ==
    /\ \A i \in 1..Len(senderProgress) : IsPercent(senderProgress[i].value)
    /\ \A i \in 1..Len(events) : events[i].ev = "onProgress" => IsPercent(events[i].value)
\* C24: a candidate or an answer addressed to the local identity and handled
\* while the session is Idle changes nothing: the session stays Idle, the
\* remote identity stays unset, no peer connection is created and no envelope
\* is sent.
C24_IdleIgnoresCandidateAndAnswer ==
    [][(/\ lastOp' = "handleSignal"
        /\ lastMsg'.type \in {"candidate", "answer"}
        /\ lastMsg'.to = peerId
        /\ SessionState = "Idle")
         => /\ SessionState' = "Idle"
            /\ remoteId' = Null
            /\ pcs' = <<>>
            /\ UNCHANGED <<ws, remoteId, peerConnection, pcs, tasks, sigTimers, sent,
                           dropped, callbacks, dataChannel>>]_vars

\* C24 witness: the second envelope an Idle session handles is a candidate
\* for it, the first having left it Idle
C24_Witness ==
    /\ lastOp = "handleSignal"
    /\ heard = 2
    /\ lastMsg.type = "candidate"
    /\ lastMsg.to = peerId
    /\ SessionState = "Idle"
    /\ remoteId = Null
-----------------------------------------------------------------------------
(* LiveSpec: LinkSpec for a channel that stays open and reads that succeed, *)
(* with every pending callback eventually run and the send buffer           *)
(* eventually drained                                                        *)

LiveNext ==
    \/ SignalingIdle /\ (NotReady \/ transfers = <<>>) /\ sendFile
    \/ SignalingIdle /\ \E t \in 1..Len(transfers) : readerOnload(t)
    \/ SignalingIdle /\ timerFires
    \/ SignalingIdle /\ bufferedAmountLow
    \/ SignalingIdle /\ \E level \in DrainTargets : drain(level)
    \/ SignalingIdle /\ channelOpens
    \/ SignalingIdle /\ deliver

\* The event loop runs every callback that is due, and the browser empties
\* the send buffer
Fairness ==
    /\ WF_vars(SignalingIdle /\ \E t \in 1..Len(transfers) : readerOnload(t))
    /\ WF_vars(SignalingIdle /\ timerFires)
    /\ WF_vars(SignalingIdle /\ bufferedAmountLow)
    /\ WF_vars(SignalingIdle /\ drain(0))
    /\ WF_vars(SignalingIdle /\ deliver)

LiveSpec == Init /\ [][LiveNext]_vars /\ Fairness

\* C25 (as claimed): every sendFile call the open channel accepts leads to
\* its file-complete frame being handed to the channel, whatever the size of
\* the file.
C25_EventuallyComplete ==
    \A t \in 1..MaxSends :
        (Len(transfers) >= t) ~> CompletionQueued(t, Len(wire))
RECURSIVE BlobSize(_)
\* blob.size: the byte lengths of the parts, added up
BlobSize(parts) ==
    IF parts = <<>> THEN 0
    ELSE (Head(parts).end - Head(parts).start) + BlobSize(Tail(parts))

\* C26 (as claimed): every onComplete of a receiver fed by a sender over an
\* in-order reliable channel carries exactly meta.totalChunks chunk buffers,
\* whose sizes add up to meta.size.
C26_CompletePayloadIsWhole ==
    \A i \in 1..Len(events) :
        events[i].ev = "onComplete"
            => /\ Len(events[i].blob.parts) = events[i].meta.totalChunks
               /\ BlobSize(events[i].blob.parts) = events[i].meta.size
\* C27 (as claimed): envelopes reach the relay in the order of their
\* sendSignal calls: none is transmitted before one submitted earlier.
C27_SentInCallOrder ==
    /\ \A i, j \in 1..Len(sent) : i < j => sent[i].call < sent[j].call
    /\ \A i \in 1..Len(sent), j \in 1..Len(sigTimers) : sent[i].call < sigTimers[j].msg.call
====
